---- MODULE Spec2Model ----
(***************************************************************************)
(* Model of src/ai-agent/agent.py: the keyword classifier                   *)
(* (Agent._identify_mcp_tool_and_params), the backend dispatcher            *)
(* (Agent._execute_mcp_tool) and the orchestrator (Agent.process).          *)
(*                                                                          *)
(* User text is a sequence of one-character strings, so that lower(),       *)
(* substring tests, split(), strip(), removeprefix() and the digit scan are *)
(* computed character by character as the Python code computes them.        *)
(* Opaque values (auth tokens, response bodies, model replies, exception    *)
(* names) are TLA+ strings.                                                 *)
(***************************************************************************)
EXTENDS Integers, Sequences, FiniteSets, TLC

(***************************************************************************)
(* Bounds of the model.                                                     *)
(***************************************************************************)
\* inputs handed to the classifier alone hold at most MaxTokens vocabulary tokens
MaxTokens == 2
\* inputs handed to process hold at most MaxProcTokens tokens of the smaller vocabulary
MaxProcTokens == 2

(***************************************************************************)
(* Words, as character sequences.                                           *)
(***************************************************************************)
kwAdd      == <<"a","d","d">>
kwCreate   == <<"c","r","e","a","t","e">>
kwMake     == <<"m","a","k","e">>
kwNew      == <<"n","e","w">>
kwList     == <<"l","i","s","t">>
kwShow     == <<"s","h","o","w">>
kwView     == <<"v","i","e","w">>
kwDisplay  == <<"d","i","s","p","l","a","y">>
kwSee      == <<"s","e","e">>
kwCheck    == <<"c","h","e","c","k">>
kwMyTasks  == <<"m","y"," ","t","a","s","k","s">>
kwDelete   == <<"d","e","l","e","t","e">>
kwRemove   == <<"r","e","m","o","v","e">>
kwUpdate   == <<"u","p","d","a","t","e">>
kwComplete == <<"c","o","m","p","l","e","t","e">>
kwDone     == <<"d","o","n","e">>
wTask      == <<"t","a","s","k">>
wTo        == <<"t","o">>

\* the keyword lists of the four tests, in the order the code writes them
CreateWords == <<kwAdd, kwCreate, kwMake, kwNew>>
ListWords   == <<kwList, kwShow, kwView, kwDisplay, kwSee, kwCheck>>
DeleteWords == <<kwDelete, kwRemove>>
UpdateWords == <<kwUpdate, kwComplete, kwDone>>

(***************************************************************************)
(* Python string primitives.                                                *)
(***************************************************************************)
\* str.lower() on one character (the upper-case letters of the vocabulary)
LowerChar(c) ==
  CASE c = "A" -> "a" [] c = "B" -> "b" [] c = "D" -> "d" [] c = "E" -> "e"
    [] c = "L" -> "l" [] c = "T" -> "t" [] OTHER -> c

\* a mutation of ToLower: the case folding forgotten
ToLower_NoFold(s) == s

\* str.lower()
ToLower(s) == [i \in 1..Len(s) |-> LowerChar(s[i])]

\* the positions at which w occurs in s
Occurrences(s, w) ==
  {i \in 1..(Len(s) - Len(w) + 1) : SubSeq(s, i, i + Len(w) - 1) = w}

\* w in s
Contains(s, w) == Occurrences(s, w) # {}

\* s.split(w, 1)[1]: what follows the first occurrence of w (w occurs in s)
AfterFirst(s, w) ==
  LET i == CHOOSE k \in Occurrences(s, w) : \A j \in Occurrences(s, w) : k <= j
  IN SubSeq(s, i + Len(w), Len(s))

IsSpace(c) == c = " "

\* str.strip()
Strip(s) ==
  LET keep == {i \in 1..Len(s) : ~IsSpace(s[i])}
  IN IF keep = {} THEN <<>>
     ELSE LET lo == CHOOSE i \in keep : \A j \in keep : i <= j
              hi == CHOOSE i \in keep : \A j \in keep : j <= i
          IN SubSeq(s, lo, hi)

\* str.removeprefix(p)
RemovePrefix(s, p) ==
  IF Len(s) >= Len(p) /\ SubSeq(s, 1, Len(p)) = p
  THEN SubSeq(s, Len(p) + 1, Len(s))
  ELSE s

IsDigit(c) == c \in {"0","1","2","3","4","5","6","7","8","9"}

DigitValue(c) ==
  CASE c = "0" -> 0 [] c = "1" -> 1 [] c = "2" -> 2 [] c = "3" -> 3 [] c = "4" -> 4
    [] c = "5" -> 5 [] c = "6" -> 6 [] c = "7" -> 7 [] c = "8" -> 8 [] c = "9" -> 9

\* int(d) of a non-empty string of decimal digits
RECURSIVE IntOf(_)
IntOf(d) ==
  IF d = <<>> THEN 0
  ELSE 10 * IntOf(SubSeq(d, 1, Len(d) - 1)) + DigitValue(d[Len(d)])

\* re.findall(r"\d+", s): the maximal runs of digits, left to right
RECURSIVE FindallDigits(_)
FindallDigits(s) ==
  LET ds == {i \in 1..Len(s) : IsDigit(s[i])}
  IN IF ds = {} THEN <<>>
     ELSE LET lo == CHOOSE i \in ds : \A j \in ds : i <= j
              ends == {k \in lo..Len(s) : \A j \in lo..k : IsDigit(s[j])}
              hi == CHOOSE k \in ends : \A j \in ends : j <= k
          IN <<SubSeq(s, lo, hi)>> \o FindallDigits(SubSeq(s, hi + 1, Len(s)))

(***************************************************************************)
(* Agent._identify_mcp_tool_and_params                                      *)
(***************************************************************************)
\* Python's None as a tool name or a token
PyNone == "None"
\* Python's None where a parameter mapping is expected
NoneParams == [none |-> TRUE]

\* any(w in text for w in words)
AnyIn(words, text) == \E i \in 1..Len(words) : Contains(text, words[i])

\* the word at which the for loop over words returns: the first of the list in text
FirstIn(words, text) ==
  words[CHOOSE i \in 1..Len(words) :
          /\ Contains(text, words[i])
          /\ \A j \in 1..(i - 1) : ~Contains(text, words[j])]

\* title = text.split(w, 1)[1].strip(); title.removeprefix("task").removeprefix("to").strip()
TitleAfter(text, w) ==
  Strip(RemovePrefix(RemovePrefix(Strip(AfterFirst(text, w)), wTask), wTo))

\* a mutation of TitleOrInput: the fallback to the raw input dropped
TitleOrInput_NoFallback(title, user_input) == title

\* title or user_input
TitleOrInput(title, user_input) == IF title # <<>> THEN title ELSE user_input

\* a mutation of TaskIdOf: the default identifier 0 instead of 1
TaskIdOf_DefaultZero(user_input) ==
  LET nums == FindallDigits(user_input)
  IN IF nums # <<>> THEN IntOf(nums[1]) ELSE 0

\* int(nums[0]) if nums else 1
TaskIdOf(user_input) ==
  LET nums == FindallDigits(user_input)
  IN IF nums # <<>> THEN IntOf(nums[1]) ELSE 1

IdentifyMcpToolAndParams(user_input, user_id) ==
  LET text == ToLower(user_input)
  IN IF AnyIn(CreateWords, text)
     THEN [tool |-> "create_task",
           params |-> [title |-> TitleOrInput(TitleAfter(text, FirstIn(CreateWords, text)),
                                              user_input)]]
     ELSE IF AnyIn(ListWords, text) \/ Contains(text, kwMyTasks)
     THEN [tool |-> "get_tasks", params |-> [user_id |-> user_id]]
     ELSE IF AnyIn(DeleteWords, text)
     THEN [tool |-> "delete_task", params |-> [task_id |-> TaskIdOf(user_input)]]
     ELSE IF AnyIn(UpdateWords, text)
     THEN [tool |-> "update_task",
           params |-> [task_id |-> TaskIdOf(user_input), status |-> "completed"]]
     ELSE [tool |-> PyNone, params |-> NoneParams]

(***************************************************************************)
(* Agent._execute_mcp_tool                                                  *)
(***************************************************************************)
MsgAdded    == "Task added successfully."
MsgUpdated  == "Task updated successfully."
MsgDeleted  == "Task deleted successfully."
MsgNoTasks  == "No tasks found for you. Feel free to add one!"
MsgUnknown  == "Unknown action"

Return(v) == [kind |-> "return", value |-> v]
Raise(e)  == [kind |-> "raise", exc |-> e]

\* params.get(key, default)
Get(p, key, default) == IF key \in DOMAIN p THEN p[key] ELSE default

\* a mutation of Headers: the Authorization header attached whatever the token
Headers_AlwaysAuth(p) ==
  ("Content-Type" :> "application/json")
    @@ ("Authorization" :> <<"Bearer ", Get(p, "session_token", "")>>)

\* headers = {"Content-Type": ...}; if session_token: headers["Authorization"] = ...
Headers(p) ==
  LET session_token == Get(p, "session_token", "")
  IN IF session_token # "" /\ session_token # PyNone
     THEN ("Content-Type" :> "application/json")
            @@ ("Authorization" :> <<"Bearer ", session_token>>)
     ELSE ("Content-Type" :> "application/json")

\* task_data of update_task: completed, plus title and description when given
UpdateData(p) ==
  [k \in {"completed"} \cup ({"title", "description"} \cap DOMAIN p) |->
     IF k = "completed" THEN TRUE ELSE p[k]]

\* The dispatcher up to its one await: the request it issues, or how it ends
\* without issuing one (params['task_id'] missing, or no branch taken).
StartRequest(tool, p) ==
  IF tool = "create_task"
  THEN [kind |-> "request",
        req |-> [method |-> "POST", path |-> <<"/api/tasks/">>, headers |-> Headers(p),
                 json |-> [title |-> Get(p, "title", <<>>),
                           description |-> Get(p, "description", <<>>)]]]
  ELSE IF tool = "get_tasks"
  THEN [kind |-> "request",
        req |-> [method |-> "GET", path |-> <<"/api/tasks/">>, headers |-> Headers(p)]]
  ELSE IF tool = "update_task"
  THEN IF "task_id" \in DOMAIN p
       THEN [kind |-> "request",
             req |-> [method |-> "PUT", path |-> <<"/api/tasks/", p.task_id>>,
                      headers |-> Headers(p), json |-> UpdateData(p)]]
       ELSE Raise("KeyError")
  ELSE IF tool = "delete_task"
  THEN IF "task_id" \in DOMAIN p
       THEN [kind |-> "request",
             req |-> [method |-> "DELETE", path |-> <<"/api/tasks/", p.task_id>>,
                      headers |-> Headers(p)]]
       ELSE Raise("KeyError")
  ELSE Return(MsgUnknown)

\* the response bodies the backend may send
Bodies == {"[]", "[{\"id\":1,\"title\":\"milk\"}]", "{}", "bad data"}

\* r.json(): the kind of value the body parses to, "invalid" when json raises
Json(body) ==
  CASE body = "[]" -> "empty_list"
    [] body = "[{\"id\":1,\"title\":\"milk\"}]" -> "list"
    [] body = "{}" -> "empty_object"
    [] OTHER -> "invalid"

\* not tasks
Falsy(json) == json \in {"empty_list", "empty_object"}

\* The dispatcher after its await: what it makes of the response.
AfterResponse(tool, status, body) ==
  IF tool = "create_task"
  THEN IF status \in {200, 201} THEN Return(MsgAdded) ELSE Return(body)
  ELSE IF tool = "get_tasks"
  THEN IF status = 200
       THEN IF Json(body) = "invalid" THEN Raise("JSONDecodeError")
            ELSE IF Falsy(Json(body)) THEN Return(MsgNoTasks)
            ELSE Return(body)
       ELSE Return(body)
  ELSE IF tool = "update_task"
  THEN IF status = 200 THEN Return(MsgUpdated) ELSE Return(body)
  ELSE IF status = 200 THEN Return(MsgDeleted) ELSE Return(body)

(***************************************************************************)
(* Agent.process                                                            *)
(***************************************************************************)
ApologyPrefix == "I'm sorry, I encountered an error: "

\* str(e)
ExcStr(e) ==
  CASE e = "JSONDecodeError" -> "Expecting value: line 1 column 1 (char 0)"
    [] e = "ConnectError" -> "All connection attempts failed"
    [] e = "KeyError" -> "'task_id'"
    [] e = "APIError" -> "Connection error."
    [] e = "IndexError" -> "list index out of range"
    [] OTHER -> e

\* a mutation of ToolPath: the branch taken whatever the classifier returned
ToolPath_Always(tool, p) == TRUE

\* if tool_name and params
ToolPath(tool, p) == tool # PyNone /\ p # NoneParams /\ DOMAIN p # {}

\* auth_token or ""
SessionToken(auth_token) ==
  IF auth_token = PyNone \/ auth_token = "" THEN "" ELSE auth_token

\* params["session_token"] = auth_token or ""
WithSessionToken(p, auth_token) == ("session_token" :> SessionToken(auth_token)) @@ p

ToolPrompt(input, result) ==
  [template |-> "tool", user_input |-> input, tool_result |-> result]

ChatPrompt(input) ==
  [template |-> "chat", system_prompt |-> "SYSTEM_PROMPT", user_input |-> input]

\* a mutation of ReturnToolPath: the record left out of the returned list
ReturnToolPath_NoRecord(content, call) ==
  [kind |-> "return", reply |-> <<content>>, tool_calls |-> <<>>]

\* return response.choices[0].message.content, [tool_call]
ReturnToolPath(content, call) ==
  [kind |-> "return", reply |-> <<content>>, tool_calls |-> <<call>>]

\* return response.choices[0].message.content, []
ReturnChatPath(content) ==
  [kind |-> "return", reply |-> <<content>>, tool_calls |-> <<>>]

\* a mutation of ExceptHandler: the exception let through
ExceptHandler_Reraise(e) == [kind |-> "raise", exc |-> e]

\* except Exception as e: return f"I'm sorry, I encountered an error: {str(e)}", []
ExceptHandler(e) ==
  [kind |-> "return", reply |-> <<ApologyPrefix, ExcStr(e)>>, tool_calls |-> <<>>]

(***************************************************************************)
(* Inputs.                                                                  *)
(***************************************************************************)
tSpace   == <<" ">>
tTask    == <<" ","t","a","s","k">>
tTo      == <<" ","t","o">>
tToys    == <<" ","t","o","y","s">>
tBuy     == <<" ","B","u","y">>
tNum42   == <<" ","4","2">>
tNum07   == <<" ","0","7">>
tNum3and4 == <<" ","3"," ","4">>
tAddCap  == <<"A","d","d">>
tDeleteCap == <<"D","E","L","E","T","E">>

Vocab ==
  {kwAdd, kwCreate, kwMake, kwNew, kwList, kwShow, kwView, kwDisplay, kwSee, kwCheck,
   kwMyTasks, kwDelete, kwRemove, kwUpdate, kwComplete, kwDone,
   tSpace, tTask, tTo, tToys, tBuy, tNum42, tNum07, tNum3and4, tAddCap, tDeleteCap}

ProcVocab == {kwAdd, kwList, kwDelete, kwDone, tTask, tBuy, tNum07}

\* the concatenations of at most n tokens of V
RECURSIVE Texts(_, _)
Texts(V, n) ==
  IF n = 0 THEN {<<>>}
  ELSE LET shorter == Texts(V, n - 1)
       IN shorter \cup {s \o t : s \in shorter, t \in V}

ClassifierInputs == Texts(Vocab, MaxTokens)
ProcessInputs    == Texts(ProcVocab, MaxProcTokens)
UserIds          == {"alice", "bob"}
AuthTokens       == {PyNone, "", "tok-A", "tok-B"}
Statuses         == {200, 201, 404}
ReplyTexts       == {"Done! Anything else?"}
ModelFailures    == {"APIError"}
ToolNames        == {"create_task", "get_tasks", "update_task", "delete_task", "frobnicate"}
DispatchParams ==
  {[session_token |-> ""],
   [session_token |-> "tok-A", title |-> tBuy],
   [task_id |-> 7],
   [session_token |-> "tok-A", task_id |-> 7, status |-> "completed"],
   [session_token |-> "tok-B", task_id |-> 7, title |-> tBuy, description |-> tToys]}

(***************************************************************************)
(* State.                                                                   *)
(***************************************************************************)
VARIABLES
  pc,          \* "idle", "await_backend", "await_llm", "done"
  entry,       \* the method called: "none", "classify", "dispatch", "process"
  user_input,  \* argument of process and of the classifier
  user_id,     \* argument of process and of the classifier
  auth_token,  \* argument of process
  cls,         \* what the classifier returned
  tool_name,   \* the dispatcher's tool_name
  params,      \* the dispatcher's params
  tool_call,   \* process's tool_call
  dispatches,  \* how many times the dispatcher was entered in this invocation
  requests,    \* the backend requests issued in this invocation
  response,    \* what the backend answered
  tool_result, \* how the dispatcher ended
  llm_calls,   \* the prompts sent to the language model in this invocation
  llm_out,     \* what the language model call gave
  raised,      \* the exceptions raised in this invocation
  ret          \* how process ended

vars == <<pc, entry, user_input, user_id, auth_token, cls, tool_name, params, tool_call,
          dispatches, requests, response, tool_result, llm_calls, llm_out, raised, ret>>

Unset == [kind |-> "unset"]
NoCall == [name |-> PyNone, arguments |-> NoneParams]

Init ==
  /\ pc = "idle"
  /\ entry = "none"
  /\ user_input = <<>>
  /\ user_id = PyNone
  /\ auth_token = PyNone
  /\ cls = [tool |-> "unset", params |-> NoneParams]
  /\ tool_name = PyNone
  /\ params = NoneParams
  /\ tool_call = NoCall
  /\ dispatches = 0
  /\ requests = <<>>
  /\ response = Unset
  /\ tool_result = Unset
  /\ llm_calls = <<>>
  /\ llm_out = Unset
  /\ raised = <<>>
  /\ ret = Unset

(***************************************************************************)
(* Operations.                                                              *)
(***************************************************************************)
\* A call of the classifier alone.
CallClassify(input, uid) ==
  /\ pc = "idle"
  /\ entry' = "classify"
  /\ user_input' = input
  /\ user_id' = uid
  /\ cls' = IdentifyMcpToolAndParams(input, uid)
  /\ pc' = "done"
  /\ UNCHANGED <<auth_token, tool_name, params, tool_call, dispatches, requests, response,
                 tool_result, llm_calls, llm_out, raised, ret>>

\* A call of the dispatcher alone, up to its await.
CallDispatch(tool, p) ==
  /\ pc = "idle"
  /\ entry' = "dispatch"
  /\ tool_name' = tool
  /\ params' = p
  /\ dispatches' = 1
  /\ LET start == StartRequest(tool, p)
     IN IF start.kind = "request"
        THEN /\ requests' = <<start.req>>
             /\ pc' = "await_backend"
             /\ UNCHANGED <<tool_result, raised>>
        ELSE /\ tool_result' = start
             /\ raised' = IF start.kind = "raise" THEN <<start.exc>> ELSE <<>>
             /\ pc' = "done"
             /\ UNCHANGED requests
  /\ UNCHANGED <<user_input, user_id, auth_token, cls, tool_call, response, llm_calls,
                 llm_out, ret>>

\* process from the point where the dispatcher ended with `out`: the second
\* language-model call is issued, or the except clause returns.
AfterDispatch(input, out) ==
  IF out.kind = "return"
  THEN /\ llm_calls' = Append(llm_calls, ToolPrompt(input, out.value))
       /\ pc' = "await_llm"
       /\ UNCHANGED <<raised, ret>>
  ELSE /\ raised' = Append(raised, out.exc)
       /\ ret' = ExceptHandler(out.exc)
       /\ pc' = "done"
       /\ UNCHANGED llm_calls

\* A call of process, up to its first await.
CallProcess(input, uid, token) ==
  /\ pc = "idle"
  /\ entry' = "process"
  /\ user_input' = input
  /\ user_id' = uid
  /\ auth_token' = token
  /\ LET c == IdentifyMcpToolAndParams(input, uid)
     IN /\ cls' = c
        /\ IF ToolPath(c.tool, c.params)
           THEN LET p == WithSessionToken(c.params, token)
                    start == StartRequest(c.tool, p)
                IN /\ tool_name' = c.tool
                   /\ params' = p
                   /\ tool_call' = [name |-> c.tool, arguments |-> p]
                   /\ dispatches' = 1
                   /\ IF start.kind = "request"
                      THEN /\ requests' = <<start.req>>
                           /\ pc' = "await_backend"
                           /\ UNCHANGED <<tool_result, llm_calls, raised, ret>>
                      ELSE /\ tool_result' = start
                           /\ AfterDispatch(input, start)
                           /\ UNCHANGED requests
           ELSE /\ llm_calls' = <<ChatPrompt(input)>>
                /\ pc' = "await_llm"
                /\ UNCHANGED <<tool_name, params, tool_call, dispatches, requests,
                               tool_result, raised, ret>>
  /\ UNCHANGED <<response, llm_out>>

\* The dispatcher ends with `out`; under process, process goes on from there.
DispatcherEnds(out) ==
  /\ tool_result' = out
  /\ IF entry = "process"
     THEN AfterDispatch(user_input, out)
     ELSE /\ raised' = IF out.kind = "raise" THEN Append(raised, out.exc) ELSE raised
          /\ pc' = "done"
          /\ UNCHANGED <<llm_calls, ret>>

\* The backend answers the pending request.
BackendResponds(status, body) ==
  /\ pc = "await_backend"
  /\ response' = [kind |-> "response", status |-> status, body |-> body]
  /\ DispatcherEnds(AfterResponse(tool_name, status, body))
  /\ UNCHANGED <<entry, user_input, user_id, auth_token, cls, tool_name, params, tool_call,
                 dispatches, requests, llm_out>>

\* The pending request fails in transport: httpx raises.
BackendFails ==
  /\ pc = "await_backend"
  /\ response' = [kind |-> "transport_error"]
  /\ DispatcherEnds(Raise("ConnectError"))
  /\ UNCHANGED <<entry, user_input, user_id, auth_token, cls, tool_name, params, tool_call,
                 dispatches, requests, llm_out>>

\* The language model replies.
ModelReplies(content) ==
  /\ pc = "await_llm"
  /\ llm_out' = [kind |-> "reply", content |-> content]
  /\ ret' = IF dispatches > 0 THEN ReturnToolPath(content, tool_call)
            ELSE ReturnChatPath(content)
  /\ pc' = "done"
  /\ UNCHANGED <<entry, user_input, user_id, auth_token, cls, tool_name, params, tool_call,
                 dispatches, requests, response, tool_result, llm_calls, raised>>

\* The language-model call raises (the API fails, or the reply holds no choice).
ModelFails(e) ==
  /\ pc = "await_llm"
  /\ llm_out' = Raise(e)
  /\ raised' = Append(raised, e)
  /\ ret' = ExceptHandler(e)
  /\ pc' = "done"
  /\ UNCHANGED <<entry, user_input, user_id, auth_token, cls, tool_name, params, tool_call,
                 dispatches, requests, response, tool_result, llm_calls>>

\* The invocation is over; the agent holds no state of it.
Finish ==
  /\ pc = "done"
  /\ pc' = "idle"
  /\ entry' = "none"
  /\ user_input' = <<>>
  /\ user_id' = PyNone
  /\ auth_token' = PyNone
  /\ cls' = [tool |-> "unset", params |-> NoneParams]
  /\ tool_name' = PyNone
  /\ params' = NoneParams
  /\ tool_call' = NoCall
  /\ dispatches' = 0
  /\ requests' = <<>>
  /\ response' = Unset
  /\ tool_result' = Unset
  /\ llm_calls' = <<>>
  /\ llm_out' = Unset
  /\ raised' = <<>>
  /\ ret' = Unset

\* The calls are offered to an idle agent only (the guard is tested before the
\* arguments are drawn).
Next ==
  \/ /\ pc = "idle"
     /\ \E input \in ClassifierInputs, uid \in UserIds : CallClassify(input, uid)
  \/ /\ pc = "idle"
     /\ \E tool \in ToolNames, p \in DispatchParams : CallDispatch(tool, p)
  \/ /\ pc = "idle"
     /\ \E input \in ProcessInputs, uid \in UserIds, token \in AuthTokens :
          CallProcess(input, uid, token)
  \/ \E status \in Statuses, body \in Bodies : BackendResponds(status, body)
  \/ BackendFails
  \/ \E content \in ReplyTexts : ModelReplies(content)
  \/ \E e \in ModelFailures : ModelFails(e)
  \/ Finish

Spec == Init /\ [][Next]_vars

(***************************************************************************)
(* What the specification says, stated apart from the definitions above.    *)
(***************************************************************************)
CreateSet == {kwAdd, kwCreate, kwMake, kwNew}
ListSet   == {kwList, kwShow, kwView, kwDisplay, kwSee, kwCheck, kwMyTasks}
DeleteSet == {kwDelete, kwRemove}
UpdateSet == {kwUpdate, kwComplete, kwDone}

\* the input with every letter in lower case
Folded(s) == [i \in 1..Len(s) |-> LowerChar(s[i])]

\* the lower-cased input contains a word of W
Has(input, W) == \E w \in W : Contains(Folded(input), w)

HasAnyKeyword(input) == Has(input, CreateSet \cup ListSet \cup DeleteSet \cup UpdateSet)

\* the class the priority chain of section 4.1 gives
ClaimedClass(input) ==
  IF Has(input, CreateSet) THEN "create_task"
  ELSE IF Has(input, ListSet) THEN "get_tasks"
  ELSE IF Has(input, DeleteSet) THEN "delete_task"
  ELSE IF Has(input, UpdateSet) THEN "update_task"
  ELSE PyNone

\* the classifier has run in this invocation
Classified == entry \in {"classify", "process"}

\* C1: the classifier is a first-match priority chain over case-insensitive
\* substring tests: create before list before delete before update, and
\* (absent, absent) when no keyword occurs.
C1_PriorityChain ==
  Classified =>
    /\ cls.tool = ClaimedClass(user_input)
    /\ (cls.tool = PyNone <=> cls.params = NoneParams)

\* C1 witness: an input with both "add" and "list" was classified as create.
C1_Witness ==
  /\ entry = "classify"
  /\ Has(user_input, {kwAdd})
  /\ Has(user_input, {kwList})
  /\ cls.tool = "create_task"

\* what the code leaves of a create input after the keyword, "task"/"to" and blanks
CreateRemainder(input) ==
  TitleAfter(Folded(input), FirstIn(CreateWords, Folded(input)))

\* C2: an input containing add, create, make or new is classified as create
\* with a non-empty title, which is the full raw input when the stripped
\* remainder is empty.
C2_CreateTitleNonEmpty ==
  (Classified /\ Has(user_input, CreateSet)) =>
    /\ cls.tool = "create_task"
    /\ DOMAIN cls.params = {"title"}
    /\ cls.params.title # <<>>
    /\ (CreateRemainder(user_input) = <<>> => cls.params.title = user_input)

\* C2 witness: a create input whose remainder is empty got the raw input as title.
C2_Witness ==
  /\ entry = "classify"
  /\ user_input = kwAdd \o tTask
  /\ cls.tool = "create_task"
  /\ cls.params.title = user_input

\* s begins with the token p: p followed by a blank or by the end of s
StartsWithToken(s, p) ==
  /\ Len(s) >= Len(p)
  /\ SubSeq(Folded(s), 1, Len(p)) = p
  /\ (Len(s) = Len(p) \/ IsSpace(s[Len(p) + 1]))

\* the title section 4.1 describes: the raw input after the first occurrence of
\* the matched keyword, less a leading "task" or "to" token and blanks
ClaimedTitle(input) ==
  LET text == Folded(input)
      w == FirstIn(CreateWords, text)
      i == CHOOSE k \in Occurrences(text, w) : \A j \in Occurrences(text, w) : k <= j
      rest == Strip(SubSeq(input, i + Len(w), Len(input)))
      cut == IF StartsWithToken(rest, wTask) THEN SubSeq(rest, Len(wTask) + 1, Len(rest))
             ELSE IF StartsWithToken(rest, wTo) THEN SubSeq(rest, Len(wTo) + 1, Len(rest))
             ELSE rest
      title == Strip(cut)
  IN IF title = <<>> THEN input ELSE title

\* C3: the title of a create classification is the substring of the input after
\* the first occurrence of the matched keyword (matched in the order add, create,
\* make, new), with a leading "task" or "to" token and surrounding whitespace
\* removed, or the full raw input when that is empty.
C3_TitleIsInputRemainder ==
  (Classified /\ cls.tool = "create_task") => cls.params.title = ClaimedTitle(user_input)

\* the value of a string of decimal digits, most significant first
RECURSIVE DecimalValue(_)
DecimalValue(d) ==
  IF d = <<>> THEN 0
  ELSE DigitValue(Head(d)) * (10 ^ (Len(d) - 1)) + DecimalValue(Tail(d))

\* the integer of the first run of digits of the raw input, 1 when it has none
ClaimedTaskId(input) ==
  LET ds == {i \in 1..Len(input) : IsDigit(input[i])}
  IN IF ds = {} THEN 1
     ELSE LET lo == CHOOSE i \in ds : \A j \in ds : i <= j
              hi == CHOOSE k \in lo..Len(input) :
                      /\ \A j \in lo..k : IsDigit(input[j])
                      /\ (k = Len(input) \/ ~IsDigit(input[k + 1]))
          IN DecimalValue(SubSeq(input, lo, hi))

\* C4: a delete or update classification carries as task identifier the integer
\* of the first run of digits of the raw input, 1 when there is none; update
\* carries status "completed"; a delete or update input without digits is still
\* classified, never absent.
C4_TaskIdFirstDigitsOrOne ==
  /\ (Classified /\ cls.tool = "delete_task") =>
       /\ DOMAIN cls.params = {"task_id"}
       /\ cls.params.task_id = ClaimedTaskId(user_input)
  /\ (Classified /\ cls.tool = "update_task") =>
       /\ DOMAIN cls.params = {"task_id", "status"}
       /\ cls.params.task_id = ClaimedTaskId(user_input)
       /\ cls.params.status = "completed"
  /\ (Classified /\ Has(user_input, DeleteSet \cup UpdateSet)
        /\ ~Has(user_input, CreateSet \cup ListSet)) =>
       /\ cls.tool \in {"delete_task", "update_task"}
       /\ "task_id" \in DOMAIN cls.params
       /\ ((\A i \in 1..Len(user_input) : ~IsDigit(user_input[i]))
             => cls.params.task_id = 1)

\* C4 witness: a delete input with two runs of digits got the first one.
C4_Witness ==
  /\ entry = "classify"
  /\ user_input = tDeleteCap \o tNum3and4
  /\ cls.tool = "delete_task"
  /\ cls.params.task_id = 3

\* C5: for an input without any keyword the classifier yields (absent, absent)
\* and, at every point of process, the dispatcher has not been entered and no
\* backend request has been issued: the one language-model call carries the
\* chat prompt, and process returns its reply with an empty tool-call list.
C5_NoKeywordNoBackend ==
  /\ (Classified /\ ~HasAnyKeyword(user_input)) =>
       cls = [tool |-> PyNone, params |-> NoneParams]
  /\ (entry = "process" /\ ~HasAnyKeyword(user_input)) =>
       /\ dispatches = 0
       /\ requests = <<>>
       /\ response = Unset
       /\ tool_result = Unset
       /\ llm_calls = <<ChatPrompt(user_input)>>
       /\ (pc = "done" =>
             /\ ret.kind = "return"
             /\ ret.tool_calls = <<>>
             /\ (llm_out.kind = "reply" => ret.reply = <<llm_out.content>>))

\* C5 witness: process returned the model's reply for an input without keyword.
C5_Witness ==
  /\ entry = "process"
  /\ pc = "done"
  /\ user_input = tBuy \o tNum07
  /\ llm_out.kind = "reply"
  /\ ret.reply = <<llm_out.content>>
  /\ ret.tool_calls = <<>>

\* the return value the table of section 4.2 gives; "the list is empty" is read
\* widely, as the returned JSON value being an empty container
ClaimedResult(tool, status, body) ==
  IF tool = "create_task" THEN (IF status \in {200, 201} THEN MsgAdded ELSE body)
  ELSE IF tool = "update_task" THEN (IF status = 200 THEN MsgUpdated ELSE body)
  ELSE IF tool = "delete_task" THEN (IF status = 200 THEN MsgDeleted ELSE body)
  ELSE IF tool = "get_tasks"
  THEN (IF status = 200 /\ Json(body) \in {"empty_list", "empty_object"} THEN MsgNoTasks
        ELSE body)
  ELSE MsgUnknown

\* C6: the dispatcher's return value follows the per-operation table for every
\* status code and body, and is "Unknown action" for a name outside the four.
C6_DispatchTable ==
  /\ response.kind = "response" =>
       tool_result = Return(ClaimedResult(tool_name, response.status, response.body))
  /\ (entry = "dispatch" /\ pc = "done"
        /\ tool_name \notin {"create_task", "get_tasks", "update_task", "delete_task"}) =>
       tool_result = Return(MsgUnknown)

\* C7: the dispatcher never raises: whatever the operation name, the parameter
\* mapping and the outcome of the backend call, it ends by returning a string.
C7_DispatcherNeverRaises ==
  /\ tool_result.kind \in {"unset", "return"}
  /\ (entry = "dispatch" /\ pc = "done") => tool_result.kind = "return"

\* C8: process never raises; when an exception was raised at any step, process
\* returns the apology followed by the exception's text, and an empty tool-call
\* list.
C8_ExceptionsCaught ==
  entry = "process" =>
    /\ ret.kind \in {"unset", "return"}
    /\ (pc = "done" => ret.kind = "return")
    /\ (pc = "done" /\ raised # <<>>) =>
         /\ ret.kind = "return"
         /\ ret.reply = <<ApologyPrefix, ExcStr(raised[Len(raised)])>>
         /\ ret.tool_calls = <<>>

\* C8 witness: the response could not be parsed, and process returned the apology.
C8_Witness ==
  /\ entry = "process"
  /\ pc = "done"
  /\ raised = <<"JSONDecodeError">>
  /\ ret.kind = "return"
  /\ ret.reply[1] = ApologyPrefix

\* C9: a backend request issued under process carries Authorization: Bearer
\* <token> exactly when the auth token given to process is present and not
\* empty, with that very token; every request carries Content-Type:
\* application/json.
C9_BearerIffToken ==
  entry = "process" =>
    \A i \in DOMAIN requests :
      LET h == requests[i].headers
      IN /\ "Content-Type" \in DOMAIN h
         /\ h["Content-Type"] = "application/json"
         /\ ("Authorization" \in DOMAIN h <=> auth_token \notin {PyNone, ""})
         /\ ("Authorization" \in DOMAIN h => h["Authorization"] = <<"Bearer ", auth_token>>)

\* C9 witness: a request went out with the caller's token as bearer credential.
C9_Witness ==
  /\ entry = "process"
  /\ auth_token = "tok-A"
  /\ requests # <<>>
  /\ requests[1].headers["Authorization"] = <<"Bearer ", "tok-A">>

\* the record of the classified operation, its parameters and the session token
ClaimedToolCall ==
  [name |-> cls.tool,
   arguments |-> ("session_token" :> (IF auth_token \in {PyNone, ""} THEN "" ELSE auth_token))
                   @@ cls.params]

\* C10 as stated: after any invocation the returned list holds exactly one
\* record if a backend request was issued, and is empty if none was.
C10_AuditFaithful ==
  (entry = "process" /\ pc = "done") =>
    /\ ret.kind = "return"
    /\ Len(ret.tool_calls) <= 1
    /\ (requests # <<>> => ret.tool_calls = <<ClaimedToolCall>>)
    /\ (requests = <<>> => ret.tool_calls = <<>>)

\* C10 as amended: the returned list holds exactly one record if a backend
\* request was issued and no exception was raised in the invocation; it is empty
\* if no request was issued or an exception was raised, also after a request;
\* it never holds more than one record.
C10_AuditUnlessException ==
  (entry = "process" /\ pc = "done") =>
    /\ ret.kind = "return"
    /\ Len(ret.tool_calls) <= 1
    /\ ((requests # <<>> /\ raised = <<>>) => ret.tool_calls = <<ClaimedToolCall>>)
    /\ ((requests = <<>> \/ raised # <<>>) => ret.tool_calls = <<>>)

\* C10 witness: a request was issued, the model call failed, the list is empty.
C10_Witness ==
  /\ entry = "process"
  /\ pc = "done"
  /\ requests # <<>>
  /\ response.kind = "response"
  /\ llm_out.kind = "raise"
  /\ ret.tool_calls = <<>>

====
